---- MODULE Spec2Model ----
(***************************************************************************)
(* The post CRUD handlers of handler.py (create, get, all, update, delete) *)
(* over one DynamoDB table.  Every handler makes exactly one call on the   *)
(* table, which the table applies atomically.  create and update read the  *)
(* clock (and create draws its id) before the call, so each is two steps:  *)
(* the handler up to its call, then the table applying the call and the    *)
(* handler returning; invocations of different callers interleave between  *)
(* the two.  get, all and delete read nothing shared before their call and *)
(* are one step, taken when the table applies the call.                    *)
(***************************************************************************)
EXTENDS Integers, Sequences, FiniteSets, TLC

VARIABLES
    store,      \* the table: post id -> item in the store's typed representation
    now,        \* the last reading of the wall clock, datetime.now()
    issued,     \* the ids uuid.uuid4() has produced so far
    nops,       \* number of handler invocations started so far
    inflight,   \* invocation number -> the store call that invocation has issued
    ret,        \* the most recently finished invocation and what it returned
    last,       \* history: per id, the last write the store applied to that key
    created,    \* history: id -> what create made of it, while not deleted since
    deleted     \* history: the store has applied some delete

vars == <<store, now, issued, nops, inflight, ret, last, created, deleted>>

----------------------------------------------------------------------------
(* Bounds and inputs *)

\* Total number of handler invocations in a behaviour.
MaxOps == 3

\* Ids a client can make up that uuid4 never produces.
ForeignIds == {0}

\* Request bodies (event["body"]): JSON texts of objects, and one text that
\* is not JSON.  The second object also carries an id, a createdAt and an
\* unrecognised field supplied by the client.
Obj1 == [content |-> "hello", author |-> "alice"]
Obj2 == [content |-> "world", author |-> "bob", id |-> 0, createdAt |-> -1, tag |-> "t"]
Obj3 == [content |-> "hello"]
Bodies == {[wf |-> TRUE, obj |-> o] : o \in {Obj1, Obj2, Obj3}} \cup {[wf |-> FALSE]}

\* The path parameter postId: any id that exists somewhere, or a made-up one.
PostIds == issued \cup ForeignIds

\* HTTP status of the store's response: success, or a non-200 status.
StoreStatuses == {200, 500}

NoFields == [k \in {} |-> 0]

----------------------------------------------------------------------------
(* json *)

json_loads_raises(body) == ~body.wf
json_loads(body) == body.obj
json_dumps(v) == [json |-> v]

(* dynamo helper: plain mapping <-> the store's typed attribute values *)

to_item_value(v) == [S |-> v]
to_item(post) == [k \in DOMAIN post |-> to_item_value(post[k])]
to_dict(item) == [k \in DOMAIN item |-> item[k].S]

----------------------------------------------------------------------------
(* The table's operations, as the handlers call them *)

ResponseMetadata(status) == [HTTPStatusCode |-> status]

put_item(tbl, item) ==
    [k \in DOMAIN tbl \cup {item.id.S} |-> IF k = item.id.S THEN item ELSE tbl[k]]

get_item(tbl, key, status) ==
    IF status = 200 /\ key.id.S \in DOMAIN tbl
    THEN [ResponseMetadata |-> ResponseMetadata(status), Item |-> tbl[key.id.S]]
    ELSE [ResponseMetadata |-> ResponseMetadata(status)]

\* The items of the table in every order a scan may return them.
ScanOrders(tbl) ==
    {s \in [1..Cardinality(DOMAIN tbl) -> DOMAIN tbl] :
        \A i, j \in DOMAIN s : i # j => s[i] # s[j]}

scan(tbl, order, status) ==
    IF status = 200
    THEN [ResponseMetadata |-> ResponseMetadata(status),
          Items |-> [i \in DOMAIN order |-> tbl[order[i]]]]
    ELSE [ResponseMetadata |-> ResponseMetadata(status)]

\* Variant: the call replaces the item by the key and the three values.
update_item_replaces(tbl, key, values) ==
    LET new == [a \in DOMAIN key \cup {"content", "author", "updatedAt"} |->
                  CASE a = "content" -> values[":c"]
                    [] a = "author" -> values[":a"]
                    [] a = "updatedAt" -> values[":u"]
                    [] OTHER -> key[a]]
    IN [k \in DOMAIN tbl \cup {key.id.S} |-> IF k = key.id.S THEN new ELSE tbl[k]]

\* Variant: the call is conditional on the item existing.
update_item_if_exists(tbl, key, values) ==
    IF key.id.S \notin DOMAIN tbl
    THEN tbl
    ELSE [k \in DOMAIN tbl |->
            IF k # key.id.S
            THEN tbl[k]
            ELSE [a \in DOMAIN tbl[k] \cup {"content", "author", "updatedAt"} |->
                    CASE a = "content" -> values[":c"]
                      [] a = "author" -> values[":a"]
                      [] a = "updatedAt" -> values[":u"]
                      [] OTHER -> tbl[k][a]]]

\* UpdateExpression "set content=:c, author=:a, updatedAt=:u" on Key: the
\* store sets the three attributes on the item with that key, and makes the
\* item (holding its key) when the table has none.
update_item(tbl, key, values) ==
    LET old == IF key.id.S \in DOMAIN tbl THEN tbl[key.id.S] ELSE key
        new == [a \in DOMAIN old \cup {"content", "author", "updatedAt"} |->
                  CASE a = "content" -> values[":c"]
                    [] a = "author" -> values[":a"]
                    [] a = "updatedAt" -> values[":u"]
                    [] OTHER -> old[a]]
    IN [k \in DOMAIN tbl \cup {key.id.S} |-> IF k = key.id.S THEN new ELSE tbl[k]]

delete_item(tbl, key) == [k \in DOMAIN tbl \ {key.id.S} |-> tbl[k]]

----------------------------------------------------------------------------
(* The handlers' own computations *)

\* uuid.uuid4(): a value no earlier call returned and no client made up.
\* Ids are opaque, so the fresh value is named by the count of ids issued.
uuid4 == Cardinality(issued) + 1

\* datetime.now(): a reading of the wall clock, taken to be later than every
\* earlier reading (microsecond resolution, readings at least a handler's
\* work apart).  Which reading reaches the store first is not fixed by this.
datetime_now == now + 1

Key(post_id) == [id |-> [S |-> post_id]]

\* Variant: an id in the request body is kept.
create_post_client_id(post, current_timestamp, uid) ==
    [k \in DOMAIN post \cup {"createdAt", "id"} |->
        CASE k = "createdAt" -> current_timestamp
          [] k = "id" -> IF "id" \in DOMAIN post THEN post.id ELSE uid
          [] OTHER -> post[k]]

\* Variant: a createdAt in the request body is kept.
create_post_client_createdAt(post, current_timestamp, uid) ==
    [k \in DOMAIN post \cup {"createdAt", "id"} |->
        CASE k = "createdAt" ->
               IF "createdAt" \in DOMAIN post THEN post.createdAt ELSE current_timestamp
          [] k = "id" -> uid
          [] OTHER -> post[k]]

\* create: the post after createdAt and id are assigned.
create_post(post, current_timestamp, uid) ==
    [k \in DOMAIN post \cup {"createdAt", "id"} |->
        CASE k = "createdAt" -> current_timestamp
          [] k = "id" -> uid
          [] OTHER -> post[k]]

create_response(res) ==
    IF res.ResponseMetadata.HTTPStatusCode = 200
    THEN [statusCode |-> 201]
    ELSE [statusCode |-> 500,
          body |-> [text |-> "An error occurred while creating post."]]

get_response(post_query) ==
    IF "Item" \in DOMAIN post_query
    THEN [statusCode |-> 200,
          headers |-> [ContentType |-> "application/json"],
          body |-> json_dumps(to_dict(post_query.Item))]
    ELSE [statusCode |-> 500,
          body |-> [text |-> "An error occurred while getting post."]]

\* all: indexing the scan's response with "Items" raises KeyError without it.
all_raises(scan_res) == "Items" \notin DOMAIN scan_res

\* Variant: the loop over the scan's items stops after the first.
all_response_first_only(scan_result) ==
    [statusCode |-> 200,
     body |-> json_dumps([i \in DOMAIN scan_result \cap {1} |-> to_dict(scan_result[i])])]

all_response(scan_result) ==
    [statusCode |-> 200,
     body |-> json_dumps([i \in DOMAIN scan_result |-> to_dict(scan_result[i])])]

\* update: json.loads, post["content"] and post["author"] raise on a body
\* that is not JSON or lacks the field; all three precede datetime.now().
update_raises(body) ==
    \/ json_loads_raises(body)
    \/ "content" \notin DOMAIN json_loads(body)
    \/ "author" \notin DOMAIN json_loads(body)

\* Variant: ":a" is filled from the content field.
update_values_author_from_content(post, current_timestamp) ==
    (":c" :> to_item_value(post.content))
    @@ (":a" :> to_item_value(post.content))
    @@ (":u" :> to_item_value(current_timestamp))

update_values(post, current_timestamp) ==
    (":c" :> to_item_value(post.content))
    @@ (":a" :> to_item_value(post.author))
    @@ (":u" :> to_item_value(current_timestamp))

update_response(post_id, res) ==
    IF res.ResponseMetadata.HTTPStatusCode = 200
    THEN [statusCode |-> 200]
    ELSE [statusCode |-> 500,
          body |-> [text |-> "An error occurred while updating post ", id |-> post_id]]

\* Variant: success is looked for as status 204.
delete_response_expects_204(post_id, res) ==
    IF res.ResponseMetadata.HTTPStatusCode = 204
    THEN [statusCode |-> 204]
    ELSE [statusCode |-> 500,
          body |-> [text |-> "An error occurred while deleting post ", id |-> post_id]]

delete_response(post_id, res) ==
    IF res.ResponseMetadata.HTTPStatusCode = 200
    THEN [statusCode |-> 204]
    ELSE [statusCode |-> 500,
          body |-> [text |-> "An error occurred while deleting post ", id |-> post_id]]

----------------------------------------------------------------------------
(* State *)

AllIds == ForeignIds \cup (1..MaxOps)

NoWrite == [op |-> "none", n |-> 0]

Init ==
    /\ store = NoFields
    /\ now = 0
    /\ issued = {}
    /\ nops = 0
    /\ inflight = NoFields
    /\ ret = [n |-> 0, op |-> "none"]
    /\ last = [k \in AllIds |-> NoWrite]
    /\ created = NoFields
    /\ deleted = FALSE

Raised(n, op) == [n |-> n, op |-> op, raised |-> TRUE, status |-> 0]

Drop(f, n) == [m \in DOMAIN f \ {n} |-> f[m]]

----------------------------------------------------------------------------
(* Handlers *)

\* create up to its put_item call.
create(body) ==
    /\ nops < MaxOps
    /\ nops' = nops + 1
    /\ IF json_loads_raises(body)
       THEN /\ ret' = Raised(nops + 1, "create")
            /\ UNCHANGED <<store, now, issued, inflight, last, created, deleted>>
       ELSE LET current_timestamp == datetime_now
                uid == uuid4
                post == create_post(json_loads(body), current_timestamp, uid)
            IN /\ now' = current_timestamp
               /\ issued' = issued \cup {uid}
               /\ inflight' = inflight @@ ((nops + 1) :>
                     [op |-> "create", Item |-> to_item(post), uid |-> uid,
                      body |-> json_loads(body), at |-> current_timestamp])
               /\ UNCHANGED <<store, ret, last, created, deleted>>

\* The store answers create's put_item; create returns.
create_return(n, status) ==
    /\ n \in DOMAIN inflight
    /\ inflight[n].op = "create"
    /\ LET call == inflight[n]
           res == [ResponseMetadata |-> ResponseMetadata(status)]
       IN /\ store' = IF status = 200 THEN put_item(store, call.Item) ELSE store
          /\ ret' = [n |-> n, op |-> "create", raised |-> FALSE, status |-> status,
                     key |-> call.uid, prev |-> last[call.uid],
                     resp |-> create_response(res)]
          /\ last' = IF status = 200
                     THEN [last EXCEPT ![call.uid] =
                             [op |-> "create", n |-> n, body |-> call.body,
                              uid |-> call.uid, at |-> call.at]]
                     ELSE last
          /\ created' = IF status = 200
                        THEN created @@ (call.uid :>
                               [body |-> call.body, uid |-> call.uid, at |-> call.at])
                        ELSE created
    /\ inflight' = Drop(inflight, n)
    /\ UNCHANGED <<now, issued, nops, deleted>>

\* get reads nothing before its get_item call: one step at the call.
get(post_id, status) ==
    /\ nops < MaxOps
    /\ nops' = nops + 1
    /\ LET post_query == get_item(store, Key(post_id), status)
       IN ret' = [n |-> nops + 1, op |-> "get", raised |-> FALSE, status |-> status,
                  key |-> post_id, prev |-> last[post_id],
                  resp |-> get_response(post_query)]
    /\ UNCHANGED <<store, now, issued, inflight, last, created, deleted>>

\* all reads nothing before its scan call: one step at the call.
all(order, status) ==
    /\ nops < MaxOps
    /\ nops' = nops + 1
    /\ LET scan_res == scan(store, order, status)
           seen == [created |-> created, deleted |-> deleted, last |-> last]
       IN ret' = IF all_raises(scan_res)
                 THEN [n |-> nops + 1, op |-> "all", raised |-> TRUE, status |-> status]
                 ELSE [n |-> nops + 1, op |-> "all", raised |-> FALSE,
                       status |-> status, seen |-> seen,
                       resp |-> all_response(scan_res.Items)]
    /\ UNCHANGED <<store, now, issued, inflight, last, created, deleted>>

\* update up to its update_item call.
update(post_id, body) ==
    /\ nops < MaxOps
    /\ nops' = nops + 1
    /\ IF update_raises(body)
       THEN /\ ret' = Raised(nops + 1, "update")
            /\ UNCHANGED <<store, now, issued, inflight, last, created, deleted>>
       ELSE LET current_timestamp == datetime_now
                post == json_loads(body)
            IN /\ now' = current_timestamp
               /\ inflight' = inflight @@ ((nops + 1) :>
                     [op |-> "update", post_id |-> post_id,
                      values |-> update_values(post, current_timestamp),
                      body |-> post, at |-> current_timestamp])
               /\ UNCHANGED <<store, issued, ret, last, created, deleted>>

\* The store answers update's update_item; update returns.
update_return(n, status) ==
    /\ n \in DOMAIN inflight
    /\ inflight[n].op = "update"
    /\ LET call == inflight[n]
           res == [ResponseMetadata |-> ResponseMetadata(status)]
       IN /\ store' = IF status = 200
                      THEN update_item(store, Key(call.post_id), call.values)
                      ELSE store
          /\ ret' = [n |-> n, op |-> "update", raised |-> FALSE, status |-> status,
                     key |-> call.post_id, prev |-> last[call.post_id],
                     existed |-> call.post_id \in DOMAIN store,
                     body |-> call.body, at |-> call.at,
                     resp |-> update_response(call.post_id, res)]
          /\ last' = IF status = 200
                     THEN [last EXCEPT ![call.post_id] =
                             [op |-> "update", n |-> n, body |-> call.body,
                              at |-> call.at,
                              existed |-> call.post_id \in DOMAIN store]]
                     ELSE last
    /\ inflight' = Drop(inflight, n)
    /\ UNCHANGED <<now, issued, nops, created, deleted>>

\* delete reads nothing before its delete_item call: one step at the call.
delete(post_id, status) ==
    /\ nops < MaxOps
    /\ nops' = nops + 1
    /\ LET res == [ResponseMetadata |-> ResponseMetadata(status)]
       IN /\ store' = IF status = 200 THEN delete_item(store, Key(post_id)) ELSE store
          /\ ret' = [n |-> nops + 1, op |-> "delete", raised |-> FALSE,
                     status |-> status, key |-> post_id, prev |-> last[post_id],
                     existed |-> post_id \in DOMAIN store,
                     resp |-> delete_response(post_id, res)]
          /\ last' = IF status = 200
                     THEN [last EXCEPT ![post_id] =
                             [op |-> "delete", n |-> nops + 1,
                              existed |-> post_id \in DOMAIN store,
                              again |-> last[post_id].op = "delete"]]
                     ELSE last
          /\ created' = IF status = 200 THEN Drop(created, post_id) ELSE created
          /\ deleted' = (deleted \/ status = 200)
    /\ UNCHANGED <<now, issued, inflight>>

Next ==
    \/ \E body \in Bodies : create(body)
    \/ \E n \in 1..MaxOps, status \in StoreStatuses : create_return(n, status)
    \/ \E post_id \in PostIds, status \in StoreStatuses : get(post_id, status)
    \/ \E order \in ScanOrders(store), status \in StoreStatuses : all(order, status)
    \/ \E post_id \in PostIds, body \in Bodies : update(post_id, body)
    \/ \E n \in 1..MaxOps, status \in StoreStatuses : update_return(n, status)
    \/ \E post_id \in PostIds, status \in StoreStatuses : delete(post_id, status)

Spec == Init /\ [][Next]_vars

----------------------------------------------------------------------------
(* Properties *)

\* The record a finished get returned, read back from its JSON body.
Returned == ret.resp.body.json

\* The plain record of a post create made: the submitted fields, with the
\* assigned id and the createdAt create set.
CreatedRecord(c) ==
    [k \in DOMAIN c.body \cup {"id", "createdAt"} |->
        CASE k = "id" -> c.uid
          [] k = "createdAt" -> c.at
          [] OTHER -> c.body[k]]

UpdatedAttrs == {"content", "author", "updatedAt"}

\* A step in which an update's update_item call was applied by the store.
UpdateApplied == ret'.n # ret.n /\ ret'.op = "update" /\ ret'.status = 200

\* A step in which a delete's delete_item call was applied by the store.
DeleteApplied == ret'.n # ret.n /\ ret'.op = "delete" /\ ret'.status = 200

\* C1: for a body with content and author, when the store accepts the put,
\* create returns 201 with no body; and a get of the assigned id whose read
\* follows that put with no write to the id in between returns 200 with the
\* created record: submitted fields, assigned id, createdAt set by create.
C1_CreateThenGet ==
    /\ (ret.op = "create" /\ ret.status = 200) => ret.resp = [statusCode |-> 201]
    /\ (/\ ret.op = "get"
        /\ ret.status = 200
        /\ ret.prev.op = "create"
        /\ {"content", "author"} \subseteq DOMAIN ret.prev.body)
       => /\ ret.resp.statusCode = 200
          /\ ret.prev.uid = ret.key
          /\ DOMAIN Returned = DOMAIN ret.prev.body \cup {"id", "createdAt"}
          /\ Returned.content = ret.prev.body.content
          /\ Returned.author = ret.prev.body.author
          /\ Returned.id = ret.key
          /\ Returned.createdAt = ret.prev.at
          /\ Returned = CreatedRecord(ret.prev)

C1_Witness ==
    /\ ret.op = "get"
    /\ ret.status = 200
    /\ ret.prev.op = "create"
    /\ {"content", "author", "id", "createdAt"} \subseteq DOMAIN ret.prev.body
    /\ ret.resp.statusCode = 200

\* C2: a get whose read follows an update(id, {content: x, author: y}) with
\* no write to the id in between returns a record with content x, author y
\* and updatedAt strictly later than createdAt.
C2_UpdateThenGet ==
    (ret.op = "get" /\ ret.status = 200 /\ ret.prev.op = "update")
    => /\ ret.resp.statusCode = 200
       /\ Returned.content = ret.prev.body.content
       /\ Returned.author = ret.prev.body.author
       /\ "createdAt" \in DOMAIN Returned
       /\ Returned.updatedAt > Returned.createdAt

\* What get and delete return (state part) and what a delete does to the
\* store (step part).
C3_State ==
    /\ (ret.op = "get" /\ ret.status = 200 /\ ret.prev.op = "delete")
       => /\ ret.resp.statusCode # 200
          /\ ret.resp = [statusCode |-> 500,
                         body |-> [text |-> "An error occurred while getting post."]]
    /\ (ret.op = "delete" /\ ret.status = 200) => ret.resp = [statusCode |-> 204]

C3_Step ==
    DeleteApplied
    => /\ ret'.key \notin DOMAIN store'
       /\ \A k \in DOMAIN store \ {ret'.key} : k \in DOMAIN store' /\ store'[k] = store[k]
       /\ ret'.prev.op = "delete" => store' = store

\* C3: a get that follows a delete of the id finds no post (get's not-found
\* result is its default envelope, never a 200 with a record); every delete
\* the store applies returns 204 with no body, whether or not the key
\* existed; the key is gone after a delete, and a delete that follows a
\* delete of the same id leaves the store as it was.
C3_DeleteIdempotent == [] C3_State /\ [][C3_Step]_vars

C3_Witness ==
    /\ ret.op = "get"
    /\ ret.status = 200
    /\ ret.prev.op = "delete"
    /\ ret.prev.again
    /\ ret.resp.statusCode = 500

\* C4: when no delete has been applied, an all whose scan succeeds returns
\* 200 with a list at least as long as the number of successful creates,
\* holding exactly one record per created id; that record is the created
\* one when nothing has written to the id since.
C4_AllAfterCreates ==
    (ret.op = "all" /\ ~ret.raised /\ ret.status = 200 /\ ~ret.seen.deleted)
    => /\ ret.resp.statusCode = 200
       /\ Cardinality(DOMAIN Returned) >= Cardinality(DOMAIN ret.seen.created)
       /\ \A k \in DOMAIN ret.seen.created :
            /\ Cardinality({i \in DOMAIN Returned : Returned[i].id = k}) = 1
            /\ ret.seen.last[k].op = "create"
               => \E i \in DOMAIN Returned :
                    /\ Returned[i].id = k
                    /\ Returned[i] = CreatedRecord(ret.seen.created[k])

C4_Witness ==
    /\ ret.op = "all"
    /\ ~ret.raised
    /\ ret.status = 200
    /\ ~ret.seen.deleted
    /\ Cardinality(DOMAIN ret.seen.created) = 2
    /\ Cardinality(DOMAIN Returned) >= 2

\* C5: every stored record carries an id that uuid4 produced in a create,
\* and was stored by that create, never under an id a client supplied.
C5_IdsServerAssigned ==
    \A k \in DOMAIN store :
        /\ k \in issued
        /\ k \in DOMAIN created
        /\ store[k].id.S = created[k].uid

\* The createdAt of stored records (state part) and its change in a step.
C6_State ==
    /\ \A k \in DOMAIN created :
         /\ k \in DOMAIN store
         /\ "createdAt" \in DOMAIN store[k]
         /\ store[k].createdAt.S = created[k].at
    /\ \A k \in DOMAIN store : "createdAt" \in DOMAIN store[k] => k \in DOMAIN created

C6_Step ==
    \A k \in DOMAIN store \cap DOMAIN store' :
        "createdAt" \in DOMAIN store[k]
        => /\ "createdAt" \in DOMAIN store'[k]
           /\ store'[k].createdAt = store[k].createdAt

\* C6: while a created record exists its createdAt is the clock reading
\* create took; only records made by create hold a createdAt, so none
\* comes from a request body; and no step changes or removes the createdAt
\* of a record that stays in the store.
C6_CreatedAtImmutable == [] C6_State /\ [][C6_Step]_vars

C6_Witness ==
    \E k \in DOMAIN created :
        /\ "createdAt" \in DOMAIN created[k].body
        /\ last[k].op = "update"
        /\ "createdAt" \in DOMAIN last[k].body
        /\ store[k].createdAt.S = created[k].at

\* What one applied update changes in the store.
C7_Step ==
    UpdateApplied
    => LET k == ret'.key
       IN /\ DOMAIN store' = DOMAIN store \cup {k}
          /\ \A j \in DOMAIN store \ {k} : store'[j] = store[j]
          /\ UpdatedAttrs \subseteq DOMAIN store'[k]
          /\ store'[k].content.S = ret'.body.content
          /\ store'[k].author.S = ret'.body.author
          /\ store'[k].updatedAt.S = ret'.at
          /\ k \in DOMAIN store
             => /\ DOMAIN store'[k] = DOMAIN store[k] \cup UpdatedAttrs
                /\ \A a \in DOMAIN store[k] \ UpdatedAttrs : store'[k][a] = store[k][a]
          /\ k \notin DOMAIN store
             => /\ DOMAIN store'[k] = {"id"} \cup UpdatedAttrs
                /\ store'[k].id.S = k

\* C7: an update the store applies sets content and author of the record
\* with that id to the submitted values and updatedAt to the time update
\* read, leaves the record's other attributes and every other record as
\* they were, and stores no other field of the body.
C7_UpdateFrame == [][C7_Step]_vars

C7_Witness ==
    /\ ret.op = "update"
    /\ ret.status = 200
    /\ ret.existed
    /\ DOMAIN ret.body # {"content", "author"}
    /\ ret.key \in DOMAIN created
    /\ Cardinality(DOMAIN store) >= 2
    /\ store[ret.key].updatedAt.S = ret.at

\* The fixed message of each handler's default envelope.
DefaultBody(op, post_id) ==
    CASE op = "create" -> [text |-> "An error occurred while creating post."]
      [] op = "get" -> [text |-> "An error occurred while getting post."]
      [] op = "all" -> [text |-> "An error occurred while getting all posts."]
      [] op = "update" -> [text |-> "An error occurred while updating post ", id |-> post_id]
      [] op = "delete" -> [text |-> "An error occurred while deleting post ", id |-> post_id]

\* C8: whenever the store call of any of the five handlers answers with a
\* status other than 200, the handler returns its default envelope: status
\* code 500 with the handler's fixed message.
C8_Non200GivesDefault ==
    (ret.op # "none" /\ ret.status \notin {0, 200})
    => /\ ~ret.raised
       /\ ret.resp.statusCode = 500
       /\ "body" \in DOMAIN ret.resp
       /\ ret.resp.body = DefaultBody(ret.op, IF ret.op = "all" THEN 0 ELSE ret.key)

\* What update and a following get return on an id with no record (state
\* part) and what that update stores (step part).
C9_State ==
    /\ (ret.op = "update" /\ ret.status = 200 /\ ~ret.existed)
       => ret.resp = [statusCode |-> 200]
    /\ (ret.op = "get" /\ ret.status = 200 /\ ret.prev.op = "update" /\ ~ret.prev.existed)
       => /\ ret.resp.statusCode = 200
          /\ DOMAIN Returned = {"id"} \cup UpdatedAttrs
          /\ Returned.id = ret.key
          /\ Returned.content = ret.prev.body.content
          /\ Returned.author = ret.prev.body.author
          /\ Returned.updatedAt = ret.prev.at

C9_Step ==
    (UpdateApplied /\ ret'.key \notin DOMAIN store)
    => /\ ret'.key \in DOMAIN store'
       /\ DOMAIN store'[ret'.key] = {"id"} \cup UpdatedAttrs

\* C9: an update of an id with no record is applied all the same: it returns
\* 200 and leaves a record with exactly id, content, author and updatedAt,
\* which a get that follows returns with 200.
C9_UpdateMissingUpserts == [] C9_State /\ [][C9_Step]_vars

C9_Witness ==
    /\ ret.op = "get"
    /\ ret.status = 200
    /\ ret.prev.op = "update"
    /\ ~ret.prev.existed
    /\ ret.resp.statusCode = 200
    /\ "createdAt" \notin DOMAIN Returned

\* C10: however updates of one id overlap, the record's content, author and
\* updatedAt are those of the single update the store applied last, and
\* every update the store applied returned 200.
C10_ConcurrentUpdatesAtomic ==
    /\ \A k \in AllIds :
         last[k].op = "update"
         => /\ k \in DOMAIN store
            /\ store[k].content.S = last[k].body.content
            /\ store[k].author.S = last[k].body.author
            /\ store[k].updatedAt.S = last[k].at
    /\ (ret.op = "update" /\ ret.status = 200) => ret.resp.statusCode = 200

\* Two updates of one id were in flight together: the one applied last was
\* invoked before the one applied just before it, with other values.
C10_Witness ==
    /\ ret.op = "update"
    /\ ret.status = 200
    /\ ret.prev.op = "update"
    /\ ret.prev.n > ret.n
    /\ ret.prev.body.content # ret.body.content
    /\ ret.prev.body.author # ret.body.author
    /\ last[ret.key].n = ret.n

====
